---- MODULE Spec2Model ----
(***************************************************************************)
(* Model of internal/activityreport: LoadConfig, GenerateReport and        *)
(* extractTextFromResponse.  One invocation of GenerateReport is a state   *)
(* machine whose steps are the pieces of code between two calls to the     *)
(* outside world (the backend client, the chat session, the file system).  *)
(***************************************************************************)
EXTENDS Integers, Sequences, FiniteSets, TLC

\* ------------------------------------------------------------------------
\* Bounds of the model
\* ------------------------------------------------------------------------
MaxCommits == 3
MaxIssues == 2
MaxChunkSize == 2
MaxPartial == 1
MaxCands == 2
MaxParts == 2
MaxLines == 2
MaxBlocks == 2
MaxItems == 2
MaxComments == 2

\* ------------------------------------------------------------------------
\* Program constants
\* ------------------------------------------------------------------------
apiKeyEnvVar == "VERTEX_AI_API_KEY"
credentialsFileEnvVar == "GOOGLE_APPLICATION_CREDENTIALS"
NoActivityDoc == "# Activity Report\n\nNo activity found in the provided logs.\n"
NoResponseDoc == "# Activity Report\n\nNo response generated by AI.\n"
ExtractErrorDoc == "# Activity Report\n\nError: Could not extract text content from AI response.\n"

\* ------------------------------------------------------------------------
\* Small helpers
\* ------------------------------------------------------------------------
Min(a, b) == IF a < b THEN a ELSE b

\* int(math.Ceil(float64(n) / float64(c))), exact for the small n, c used here
Ceil(n, c) == IF n % c = 0 THEN n \div c ELSE (n \div c) + 1

Ids(n) == [k \in 1..n |-> k]

SeqsUpTo(S, n) == UNION {[1..k -> S] : k \in 0..n}

\* ------------------------------------------------------------------------
\* genai.GenerateContentResponse: candidates -> content -> parts
\* ------------------------------------------------------------------------
TextPart(t) == [isText |-> TRUE, val |-> t]
BlobPart(b) == [isText |-> FALSE, val |-> b]
NilContentCand == [hasContent |-> FALSE, Parts |-> <<>>]
Cand(parts) == [hasContent |-> TRUE, Parts |-> parts]
NilResp == [isNil |-> TRUE, Candidates |-> <<>>]
Resp(cands) == [isNil |-> FALSE, Candidates |-> cands]

\* the body of the inner loop: a part is written only when it is a genai.Text
AppendPartAnyType(builder, part) == builder \o part.val
AppendPart(builder, part) == IF part.isText THEN builder \o part.val ELSE builder

RECURSIVE WriteParts(_, _)
WriteParts(builder, parts) ==
    IF parts = <<>> THEN builder
    ELSE WriteParts(AppendPart(builder, Head(parts)), Tail(parts))

RECURSIVE WriteCandidates(_, _)
WriteCandidates(builder, cands) ==
    IF cands = <<>> THEN builder
    ELSE WriteCandidates(
             IF Head(cands).hasContent
                 THEN WriteParts(builder, Head(cands).Parts)
                 ELSE builder,
             Tail(cands))

extractTextFromResponse(resp) ==
    IF resp.isNil THEN "" ELSE WriteCandidates("", resp.Candidates)

\* the responses the extractor is exercised on
PartKinds == {TextPart("a"), TextPart("b"), BlobPart("X")}
CandKinds == {NilContentCand} \cup {Cand(p) : p \in SeqsUpTo(PartKinds, MaxParts)}
AllResponses == {NilResp} \cup {Resp(c) : c \in SeqsUpTo(CandKinds, MaxCands)}

\* the responses a chat turn of the session may return
SessionResponses ==
    { NilResp,
      Resp(<<>>),
      Resp(<<Cand(<<BlobPart("X")>>)>>),
      Resp(<<Cand(<<TextPart("# Weekly "), BlobPart("X"), TextPart("Report\n")>>)>>) }

\* ------------------------------------------------------------------------
\* LoadConfig
\* ------------------------------------------------------------------------
\* A configuration source: the path given, what the file system says about
\* it, and the fields the YAML document carries.
RawConfigs ==
    [ path : {"", "config.yaml"},
      exists : BOOLEAN,
      readable : BOOLEAN,
      yamlOK : BOOLEAN,
      ChunkSize : 0..MaxChunkSize,
      ProjectID : {"", "proj"},
      Location : {"", "us-central1"},
      GeminiModel : {"", "gemini"},
      CredentialsFile : {"", "/cfg/key.json"} ]

NilCfg == [ChunkSize |-> 0, ProjectID |-> "", Location |-> "",
           GeminiModel |-> "", CredentialsFile |-> ""]

CfgOf(c) == [ChunkSize |-> c.ChunkSize, ProjectID |-> c.ProjectID,
             Location |-> c.Location, GeminiModel |-> c.GeminiModel,
             CredentialsFile |-> c.CredentialsFile]

CfgFail(msg) == [isNil |-> TRUE, cfg |-> NilCfg, err |-> msg]

LoadConfigNoModelCheck(c) ==
    IF c.path = "" THEN CfgFail("config path cannot be empty")
    ELSE IF ~c.exists THEN CfgFail("config file not found at path")
    ELSE IF ~c.readable THEN CfgFail("failed to read config file")
    ELSE IF ~c.yamlOK THEN CfgFail("failed to unmarshal config YAML")
    ELSE IF c.ChunkSize <= 0 THEN CfgFail("chunk_size must be positive in config")
    ELSE IF c.ProjectID = "" THEN CfgFail("project_id cannot be empty in config")
    ELSE IF c.Location = "" THEN CfgFail("location cannot be empty in config")
    ELSE [isNil |-> FALSE, cfg |-> CfgOf(c), err |-> ""]

LoadConfigAcceptsZeroChunk(c) ==
    IF c.path = "" THEN CfgFail("config path cannot be empty")
    ELSE IF ~c.exists THEN CfgFail("config file not found at path")
    ELSE IF ~c.readable THEN CfgFail("failed to read config file")
    ELSE IF ~c.yamlOK THEN CfgFail("failed to unmarshal config YAML")
    ELSE IF c.ChunkSize < 0 THEN CfgFail("chunk_size must be positive in config")
    ELSE IF c.ProjectID = "" THEN CfgFail("project_id cannot be empty in config")
    ELSE IF c.Location = "" THEN CfgFail("location cannot be empty in config")
    ELSE IF c.GeminiModel = "" THEN CfgFail("gemini_model cannot be empty in config")
    ELSE [isNil |-> FALSE, cfg |-> CfgOf(c), err |-> ""]

\* LoadConfig(configPath): the configuration and a nil error, or nil and the
\* error of the first check that fails
LoadConfig(c) ==
    IF c.path = "" THEN CfgFail("config path cannot be empty")
    ELSE IF ~c.exists THEN CfgFail("config file not found at path")
    ELSE IF ~c.readable THEN CfgFail("failed to read config file")
    ELSE IF ~c.yamlOK THEN CfgFail("failed to unmarshal config YAML")
    ELSE IF c.ChunkSize <= 0 THEN CfgFail("chunk_size must be positive in config")
    ELSE IF c.ProjectID = "" THEN CfgFail("project_id cannot be empty in config")
    ELSE IF c.Location = "" THEN CfgFail("location cannot be empty in config")
    ELSE IF c.GeminiModel = "" THEN CfgFail("gemini_model cannot be empty in config")
    ELSE [isNil |-> FALSE, cfg |-> CfgOf(c), err |-> ""]

\* number of independent defects of a configuration source
B2N(b) == IF b THEN 1 ELSE 0
Defects(c) ==
    B2N(c.path = "") + B2N(~c.exists) + B2N(~c.readable) + B2N(~c.yamlOK)
    + B2N(c.ChunkSize <= 0) + B2N(c.ProjectID = "") + B2N(c.Location = "")
    + B2N(c.GeminiModel = "")

\* the configuration sources GenerateReport is run on: valid ones and the
\* ones with a single defect
ConfigInputs == {c \in RawConfigs : Defects(c) <= 1}

\* ------------------------------------------------------------------------
\* Authentication selection (GenerateReport, step 2)
\* ------------------------------------------------------------------------
Environments == [GOOGLE_APPLICATION_CREDENTIALS : {"", "/env/key.json"},
                 VERTEX_AI_API_KEY : {"", "k3y"}]

NoOpt == [kind |-> "none", value |-> "", source |-> "none"]

\* result: the client option chosen, the environment variables consulted
\* through os.Getenv, and the error message when nothing is available
SelectAuthNoPrecedence(c, e) ==
    IF e[apiKeyEnvVar] # ""
        THEN [ok |-> TRUE,
              opt |-> [kind |-> "api_key", value |-> e[apiKeyEnvVar],
                       source |-> apiKeyEnvVar],
              read |-> {apiKeyEnvVar}, msg |-> ""]
    ELSE IF c.CredentialsFile # ""
        THEN [ok |-> TRUE,
              opt |-> [kind |-> "credentials_file", value |-> c.CredentialsFile,
                       source |-> "config"],
              read |-> {apiKeyEnvVar}, msg |-> ""]
    ELSE IF e[credentialsFileEnvVar] # ""
        THEN [ok |-> TRUE,
              opt |-> [kind |-> "credentials_file", value |-> e[credentialsFileEnvVar],
                       source |-> credentialsFileEnvVar],
              read |-> {apiKeyEnvVar, credentialsFileEnvVar}, msg |-> ""]
    ELSE [ok |-> FALSE, opt |-> NoOpt,
          read |-> {apiKeyEnvVar, credentialsFileEnvVar}, msg |-> apiKeyEnvVar]

SelectAuthDefaultCreds(c, e) ==
    IF c.CredentialsFile # ""
        THEN [ok |-> TRUE,
              opt |-> [kind |-> "credentials_file", value |-> c.CredentialsFile,
                       source |-> "config"],
              read |-> {}, msg |-> ""]
    ELSE IF e[credentialsFileEnvVar] # ""
        THEN [ok |-> TRUE,
              opt |-> [kind |-> "credentials_file", value |-> e[credentialsFileEnvVar],
                       source |-> credentialsFileEnvVar],
              read |-> {credentialsFileEnvVar}, msg |-> ""]
    ELSE IF e[apiKeyEnvVar] # ""
        THEN [ok |-> TRUE,
              opt |-> [kind |-> "api_key", value |-> e[apiKeyEnvVar],
                       source |-> apiKeyEnvVar],
              read |-> {credentialsFileEnvVar, apiKeyEnvVar}, msg |-> ""]
    ELSE [ok |-> TRUE, opt |-> NoOpt,
          read |-> {credentialsFileEnvVar, apiKeyEnvVar}, msg |-> ""]

SelectAuth(c, e) ==
    IF c.CredentialsFile # ""
        THEN [ok |-> TRUE,
              opt |-> [kind |-> "credentials_file", value |-> c.CredentialsFile,
                       source |-> "config"],
              read |-> {}, msg |-> ""]
    ELSE IF e[credentialsFileEnvVar] # ""
        THEN [ok |-> TRUE,
              opt |-> [kind |-> "credentials_file", value |-> e[credentialsFileEnvVar],
                       source |-> credentialsFileEnvVar],
              read |-> {credentialsFileEnvVar}, msg |-> ""]
    ELSE IF e[apiKeyEnvVar] # ""
        THEN [ok |-> TRUE,
              opt |-> [kind |-> "api_key", value |-> e[apiKeyEnvVar],
                       source |-> apiKeyEnvVar],
              read |-> {credentialsFileEnvVar, apiKeyEnvVar}, msg |-> ""]
    ELSE [ok |-> FALSE, opt |-> NoOpt,
          read |-> {credentialsFileEnvVar, apiKeyEnvVar}, msg |-> apiKeyEnvVar]

\* ------------------------------------------------------------------------
\* The commit feed and json.Unmarshal into []CommitLog
\* ------------------------------------------------------------------------
\* A feed is a JSON text: its document ("array" of commit objects, "null",
\* an array holding something that is no object, or text that is no JSON)
\* and whether white space surrounds it.  Commit objects are 1, 2, ...
CommitFeeds ==
    [doc : {"array"}, ws : BOOLEAN, elems : {Ids(n) : n \in 0..MaxCommits}]
    \cup [doc : {"null", "non_object_array", "malformed"}, ws : {FALSE}, elems : {<<>>}]

Unmarshal(feed) ==
    IF feed.doc = "array" THEN [err |-> FALSE, logs |-> feed.elems]
    ELSE IF feed.doc = "null" THEN [err |-> FALSE, logs |-> <<>>]
    ELSE [err |-> TRUE, logs |-> <<>>]

\* strings.TrimSpace(gitLogsJSON) == "[]"
TrimSpaceIsEmptyArray(feed) == feed.doc = "array" /\ feed.elems = <<>>

IssueLists == {Ids(n) : n \in 0..MaxIssues}

\* ------------------------------------------------------------------------
\* Chunk loop arithmetic
\* ------------------------------------------------------------------------
\* i += cfg.ChunkSize
AdvanceStuck(i, size) == i
Advance(i, size) == i + size

\* end := i + cfg.ChunkSize; if end > len { end = len }
ChunkEndUnclamped(i, size, len) == i + size - 1
ChunkEnd(i, size, len) == IF i + size > len THEN len ELSE i + size

\* logs[i:end]
Slice(s, i, end) == SubSeq(s, i + 1, end)

\* (i/cfg.ChunkSize)+1
ChunkNo(i, size) == (i \div size) + 1

\* ------------------------------------------------------------------------
\* Messages of the chat session
\* ------------------------------------------------------------------------
InstructionMsg == [kind |-> "instruction", recs |-> <<>>]
CommitChunkMsg(chunk) == [kind |-> "commits", recs |-> chunk]
IssuesIntroMsg == [kind |-> "issues_intro", recs |-> <<>>]
IssueChunkMsg(chunk) == [kind |-> "issues", recs |-> chunk]
\* the text of finalPrompt
finalPrompt ==
    "\nNow that you have received the commits and issues, please prepare a weekly activity report that will be sent to the client and other stakeholders."
    \o "\nUse the issues list, if provided, for calculating project's lifecycle time of each issue and the velocity of the team."
    \o "\nSome of them are not technical persons, so keep a formal tone avoiding jargons. Please analyze the commits and issues and summarize the key points, challenges, and resolutions."
    \o "\nPlease write the report in markdown format."
FinalPromptMsg == [kind |-> "final", recs |-> <<>>, text |-> finalPrompt]

\* cs.SendMessage: an error, or a response (which may be nil)
\* why a backend call failed: the caller's context was cancelled (or its
\* deadline passed), or the backend failed for a reason of its own
Cancelled == "context canceled"
FailureCauses == {Cancelled, "backend unavailable"}

SendResults ==
    {[ok |-> FALSE, cause |-> c, resp |-> NilResp] : c \in FailureCauses}
    \cup {[ok |-> TRUE, cause |-> "", resp |-> r] : r \in SessionResponses}

\* genai.NewClient(ctx, clientOpts...): a client, or an error
NewClientResults ==
    {[ok |-> FALSE, cause |-> c] : c \in FailureCauses} \cup {[ok |-> TRUE, cause |-> ""]}

\* if err != nil after genai.NewClient
ClientFailed(r) == ~r.ok

\* if err != nil after cs.SendMessage: the turn failed and the call returns
TurnFailedIgnored(r) == FALSE
TurnFailedUnlessCancelled(r) == ~r.ok /\ r.cause # Cancelled
TurnFailed(r) == ~r.ok

\* if len(issues) > 0
IssuesSuppliedAlways(issues) == TRUE
IssuesSupplied(issues) == Len(issues) > 0

\* ------------------------------------------------------------------------
\* os.WriteFile(outputPath, data, 0o600)
\* ------------------------------------------------------------------------
OldContent == "previous report"

\* The file is opened with O_TRUNC and written: the call succeeds, or fails
\* before the file is touched, or fails after truncation with a proper
\* prefix of the data on disk.
WriteOutcomes(old, data) ==
    {[failed |-> FALSE, content |-> data], [failed |-> TRUE, content |-> old]}
    \cup {[failed |-> TRUE, content |-> SubSeq(data, 1, k)] :
             k \in 0..Min(MaxPartial, Len(data) - 1)}

\* ------------------------------------------------------------------------
\* Errors returned by GenerateReport
\* ------------------------------------------------------------------------
NoErr == [kind |-> "nil", msg |-> "", n |-> 0, m |-> 0]
Err(kind, msg) == [kind |-> kind, msg |-> msg, n |-> 0, m |-> 0]
ChunkErr(kind, n, m, msg) == [kind |-> kind, msg |-> msg, n |-> n, m |-> m]

\* ------------------------------------------------------------------------
\* pkg/gitcontributors: GetContributors
\* ------------------------------------------------------------------------
\* strings.Contains(s, substr)
Contains(s, substr) ==
    \E k \in 1..(Len(s) - Len(substr) + 1) : SubSeq(s, k, k + Len(substr) - 1) = substr

\* strings.TrimSpace on the spaces of the log fields
RECURSIVE TrimLeft(_)
TrimLeft(s) ==
    IF Len(s) > 0 /\ SubSeq(s, 1, 1) = " " THEN TrimLeft(SubSeq(s, 2, Len(s))) ELSE s
RECURSIVE TrimRight(_)
TrimRight(s) ==
    IF Len(s) > 0 /\ SubSeq(s, Len(s), Len(s)) = " "
        THEN TrimRight(SubSeq(s, 1, Len(s) - 1)) ELSE s
TrimSpace(s) == TrimRight(TrimLeft(s))

\* strings.ToLower on ASCII text
UpperLetters == "ABCDEFGHIJKLMNOPQRSTUVWXYZ"
LowerLetters == "abcdefghijklmnopqrstuvwxyz"
LowerChar(c) ==
    IF \E k \in 1..Len(UpperLetters) : SubSeq(UpperLetters, k, k) = c
        THEN LET k == CHOOSE k \in 1..Len(UpperLetters) : SubSeq(UpperLetters, k, k) = c
             IN SubSeq(LowerLetters, k, k)
        ELSE c
RECURSIVE ToLower(_)
ToLower(s) ==
    IF Len(s) = 0 THEN s ELSE LowerChar(SubSeq(s, 1, 1)) \o ToLower(SubSeq(s, 2, Len(s)))

\* the < of Go strings: bytewise, on the characters the log fields use
ByteOrder == " -.0123456789:<>@ABCDEFGHIJKLMNOPQRSTUVWXYZ_abcdefghijklmnopqrstuvwxyz"
ByteOf(c) == CHOOSE k \in 1..Len(ByteOrder) : SubSeq(ByteOrder, k, k) = c
RECURSIVE StrLess(_, _)
StrLess(a, b) ==
    IF Len(b) = 0 THEN FALSE
    ELSE IF Len(a) = 0 THEN TRUE
    ELSE IF SubSeq(a, 1, 1) # SubSeq(b, 1, 1)
        THEN ByteOf(SubSeq(a, 1, 1)) < ByteOf(SubSeq(b, 1, 1))
    ELSE StrLess(SubSeq(a, 2, Len(a)), SubSeq(b, 2, Len(b)))

\* time.Parse(time.RFC3339, dateStr): the instant (in days), or an error
ZeroTime == 0
DateTexts == {"2024-01-01T00:00:00Z", "2024-01-02T00:00:00Z", "yesterday"}
ParseRFC3339(dateStr) ==
    CASE dateStr = "2024-01-01T00:00:00Z" -> [err |-> FALSE, t |-> 1]
      [] dateStr = "2024-01-02T00:00:00Z" -> [err |-> FALSE, t |-> 2]
      [] OTHER -> [err |-> TRUE, t |-> ZeroTime]

\* the repository paths: what filepath.Abs and the two os.Stat calls find
RepoPaths ==
    {[text |-> "", absOK |-> TRUE, stat |-> "notexist", gitStat |-> "notexist"],
     [text |-> "gone", absOK |-> FALSE, stat |-> "notexist", gitStat |-> "notexist"],
     [text |-> "missing", absOK |-> TRUE, stat |-> "notexist", gitStat |-> "notexist"],
     [text |-> "locked", absOK |-> TRUE, stat |-> "error", gitStat |-> "error"],
     [text |-> "file.txt", absOK |-> TRUE, stat |-> "file", gitStat |-> "notexist"],
     [text |-> "plain", absOK |-> TRUE, stat |-> "dir", gitStat |-> "notexist"],
     [text |-> "gitlocked", absOK |-> TRUE, stat |-> "dir", gitStat |-> "error"],
     [text |-> "repo", absOK |-> TRUE, stat |-> "dir", gitStat |-> "ok"]}

validateRepoPathNoGitCheck(repoPath) ==
    IF repoPath.text = "" THEN "repository path cannot be empty"
    ELSE IF ~repoPath.absOK THEN "failed to get absolute path"
    ELSE IF repoPath.stat = "notexist" THEN "repository path does not exist"
    ELSE IF repoPath.stat = "error" THEN "failed to stat repository path"
    ELSE IF repoPath.stat # "dir" THEN "repository path is not a directory"
    ELSE ""

\* validateRepoPath(repoPath): "" when the path is a git repository, else the error
validateRepoPath(repoPath) ==
    IF repoPath.text = "" THEN "repository path cannot be empty"
    ELSE IF ~repoPath.absOK THEN "failed to get absolute path"
    ELSE IF repoPath.stat = "notexist" THEN "repository path does not exist"
    ELSE IF repoPath.stat = "error" THEN "failed to stat repository path"
    ELSE IF repoPath.stat # "dir" THEN "repository path is not a directory"
    ELSE IF repoPath.gitStat = "notexist"
        THEN "path is not a git repository (missing .git directory)"
    ELSE IF repoPath.gitStat = "error" THEN "failed to stat .git directory"
    ELSE ""

\* cmd.Run() of git log: it succeeds, or fails with a message on stderr
NoCommitsYet == "fatal: your current branch 'main' does not have any commits yet"
BadDefaultRevision == "fatal: bad default revision 'HEAD'"
BadObject == "fatal: bad object HEAD"
GitRuns ==
    {[failed |-> FALSE, stderr |-> ""]}
    \cup {[failed |-> TRUE, stderr |-> e] :
             e \in {NoCommitsYet, BadDefaultRevision, BadObject, ""}}

\* the lines of stdout: an empty line, a line with fewer than three fields,
\* a line longer than the scanner's buffer, or name|email|date
LogNames == {"Ann", "ANN", ""}
LogEmails == {"a@x", " b@x", ""}
NoEntry(k) == [kind |-> k, name |-> "", email |-> "", date |-> ""]
LogLines ==
    {NoEntry("blank"), NoEntry("malformed")}
    \cup [kind : {"entry"}, name : LogNames, email : LogEmails, date : DateTexts]
LogOutputs ==
    SeqsUpTo(LogLines, MaxLines)
    \cup {<<l, NoEntry("oversize")>> :
             l \in {e \in LogLines : e.kind = "entry" /\ e.name = "Ann" /\ e.email = "a@x"}}

\* the lines scanner.Scan() delivers: those before the first oversize line
RECURSIVE Scanned(_)
Scanned(out) ==
    IF out = <<>> \/ Head(out).kind = "oversize" THEN <<>>
    ELSE <<Head(out)>> \o Scanned(Tail(out))

\* scanner.Err() != nil
ScannerErr(out) == \E k \in 1..Len(out) : out[k].kind = "oversize"

MapKeyNameOnly(name, email) == ToLower(name)

\* mapKey := strings.ToLower(fmt.Sprintf("%s<%s>", name, email))
MapKey(name, email) == ToLower(name \o "<" \o email \o ">")

\* one iteration of the scanner loop on contributorsMap m
AggregateLine(m, line) ==
    LET name == TrimSpace(line.name)
        email == TrimSpace(line.email)
        parsed == ParseRFC3339(TrimSpace(line.date))
        commitDate == parsed.t
        mapKey == MapKey(name, email)
    IN IF line.kind # "entry" THEN m
       ELSE IF name = "" /\ email = "" THEN m
       ELSE IF parsed.err THEN m
       ELSE IF mapKey \notin DOMAIN m
           THEN [k \in DOMAIN m \cup {mapKey} |->
                    IF k = mapKey
                        THEN [Name |-> name, Email |-> email, Commits |-> 1,
                              FirstCommitDate |-> commitDate,
                              LastCommitDate |-> commitDate]
                        ELSE m[k]]
           ELSE LET a == m[mapKey] IN
                [m EXCEPT ![mapKey] =
                    [Name |-> IF a.Name = "" /\ name # "" THEN name ELSE a.Name,
                     Email |-> IF a.Email = "" /\ email # "" THEN email ELSE a.Email,
                     Commits |-> a.Commits + 1,
                     FirstCommitDate |->
                         IF a.FirstCommitDate = ZeroTime \/ commitDate < a.FirstCommitDate
                             THEN commitDate ELSE a.FirstCommitDate,
                     LastCommitDate |->
                         IF a.LastCommitDate = ZeroTime \/ commitDate > a.LastCommitDate
                             THEN commitDate ELSE a.LastCommitDate]]

\* the scanner loop
RECURSIVE Aggregate(_, _)
Aggregate(m, out) ==
    IF out = <<>> THEN m ELSE Aggregate(AggregateLine(m, Head(out)), Tail(out))

\* the less function of sortContributors
ContributorLess(a, b) ==
    IF ToLower(a.Name) # ToLower(b.Name)
        THEN StrLess(ToLower(a.Name), ToLower(b.Name))
        ELSE StrLess(ToLower(a.Email), ToLower(b.Email))

\* the slice built from the map (in any iteration order) after
\* sort.SliceStable: every arrangement the sort can leave
SortedContributors(m) ==
    LET keep == {k \in DOMAIN m : m[k].FirstCommitDate # ZeroTime
                                  /\ m[k].LastCommitDate # ZeroTime}
    IN {s \in [1..Cardinality(keep) -> {m[k] : k \in keep}] :
           /\ \A k \in keep : \E j \in DOMAIN s : s[j] = m[k]
           /\ \A j1, j2 \in DOMAIN s : j1 < j2 => ~ContributorLess(s[j2], s[j1])}

\* the result of GetContributors: the slice (nil or not) and the error
EmptyMap == [k \in {} |-> 0]
GcResult(cs, isNil, e) == [contributors |-> cs, isNil |-> isNil, err |-> e]
NoGcResult == GcResult(<<>>, TRUE, "")

\* the branch taken when cmd.Run() fails: an empty slice for an empty
\* repository, else the error
RunErrorResult(run, out) ==
    IF Contains(run.stderr, "does not have any commits")
       \/ Contains(run.stderr, "bad default revision 'HEAD'")
       \/ Len(out) = 0
        THEN GcResult(<<>>, FALSE, "")
        ELSE GcResult(<<>>, TRUE, "git log command failed")

\* ------------------------------------------------------------------------
\* pkg/gitlogs: GetLogsJSON
\* ------------------------------------------------------------------------
\* validateRepoPath of package gitlogs: "" when the path is a git repository,
\* else the error
gitlogs_validateRepoPath(repoPath) ==
    IF repoPath.text = "" THEN "repository path cannot be empty"
    ELSE IF ~repoPath.absOK THEN "failed to get absolute path"
    ELSE IF repoPath.stat = "notexist" THEN "repository path does not exist"
    ELSE IF repoPath.stat = "error" THEN "failed to stat repository path"
    ELSE IF repoPath.stat # "dir" THEN "repository path is not a directory"
    ELSE IF repoPath.gitStat = "notexist"
        THEN "path is not a git repository (missing .git directory)"
    ELSE IF repoPath.gitStat = "error" THEN "failed to stat .git directory"
    ELSE ""

\* what git show prints for a commit: it fails, or lists file names, one a line
ShowFailed == [failed |-> TRUE, lines |-> <<>>]
ShowOutputs ==
    {ShowFailed}
    \cup {[failed |-> FALSE, lines |-> l] :
             l \in {<<>>, <<"a.go">>, <<"b.go", "a.go">>, <<"b.go", " ", "a.go">>}}

\* the blocks of the first pass, each ended by a null byte: white space
\* only, fewer than five fields, or hash, name, email, date and message.
\* The commit at position k of the listing has hash k.
NoCommit(k) == [kind |-> k, hash |-> 0, name |-> "", email |-> "", date |-> "",
                message |-> "", show |-> ShowFailed]
BlockShapes ==
    {NoCommit("blank"), NoCommit("malformed")}
    \cup [kind : {"entry"}, hash : {0}, name : {"Ann"}, email : {"a@x"},
          date : {"2024-01-01T00:00:00Z", "yesterday"}, message : {" fix bug "},
          show : ShowOutputs]
LogBlocks ==
    {[k \in 1..Len(b) |-> [b[k] EXCEPT !.hash = k]] : b \in SeqsUpTo(BlockShapes, MaxBlocks)}

\* the first loop: commitOrder and logEntriesMap from the blocks
ParseBlock(acc, block) ==
    LET parsed == ParseRFC3339(block.date) IN
    IF block.kind # "entry" THEN acc
    ELSE IF parsed.err THEN acc
    ELSE [commitOrder |-> Append(acc.commitOrder, block.hash),
          logEntriesMap |->
              [h \in DOMAIN acc.logEntriesMap \cup {block.hash} |->
                  IF h = block.hash
                      THEN [hash |-> block.hash,
                            CommitDateTime |-> parsed.t,
                            AuthorName |-> block.name,
                            AuthorEmail |-> block.email,
                            Message |-> TrimSpace(block.message),
                            ModifiedFiles |-> <<>>]
                      ELSE acc.logEntriesMap[h]]]

RECURSIVE ParseBlocks(_, _)
ParseBlocks(acc, blocks) ==
    IF blocks = <<>> THEN acc ELSE ParseBlocks(ParseBlock(acc, Head(blocks)), Tail(blocks))

\* the file names of a git show output: its lines, trimmed, the empty ones dropped
RECURSIVE ModifiedFilesOf(_)
ModifiedFilesOf(lines) ==
    IF lines = <<>> THEN <<>>
    ELSE (IF TrimSpace(Head(lines)) # "" THEN <<TrimSpace(Head(lines))>> ELSE <<>>)
         \o ModifiedFilesOf(Tail(lines))

\* sort.Strings
RECURSIVE InsertSorted(_, _)
InsertSorted(x, sorted) ==
    IF sorted = <<>> THEN <<x>>
    ELSE IF StrLess(Head(sorted), x) THEN <<Head(sorted)>> \o InsertSorted(x, Tail(sorted))
    ELSE <<x>> \o sorted
RECURSIVE SortStrings(_)
SortStrings(xs) == IF xs = <<>> THEN <<>> ELSE InsertSorted(Head(xs), SortStrings(Tail(xs)))

\* if len(modifiedFiles) == 0 { continue }
NoFilesNeverSkipped(files) == FALSE
NoFiles(files) == Len(files) = 0

\* one iteration of the second loop: the commit is skipped when git show
\* fails or lists no file, else its entry gets the sorted files and is appended
ShowCommit(final, logEntriesMap, hash, show) ==
    LET modifiedFiles == ModifiedFilesOf(show.lines) IN
    IF show.failed THEN final
    ELSE IF NoFiles(modifiedFiles) THEN final
    ELSE IF hash \in DOMAIN logEntriesMap
        THEN Append(final, [logEntriesMap[hash] EXCEPT
                                !.ModifiedFiles = SortStrings(modifiedFiles)])
    ELSE final

\* the result of GetLogsJSON: the text ("" with an error, "[]", or the
\* indented JSON array of the entries) and the error
GlResult(text, entries, e) == [text |-> text, entries |-> entries, err |-> e]
NoGlResult == GlResult("", <<>>, "")

\* json.MarshalIndent(finalLogEntries, "", "  ")
MarshalIndent(entries) ==
    IF entries = <<>> THEN GlResult("[]", <<>>, "") ELSE GlResult("[...]", entries, "")

\* the branch taken when the git log of the first pass fails
LogErrorResult(run, blocks) ==
    IF Contains(run.stderr, "does not have any commits")
       \/ Contains(run.stderr, "bad default revision 'HEAD'")
       \/ Len(blocks) = 0
        THEN GlResult("[]", <<>>, "")
        ELSE GlResult("", <<>>, "git log command failed")

NoGlLoc == [commitOrder |-> <<>>, logEntriesMap |-> EmptyMap, finalLogEntries |-> <<>>,
            j |-> 0]

\* ------------------------------------------------------------------------
\* pkg/gitproviders: GitHubClient.GetIssues
\* ------------------------------------------------------------------------
\* what Issues.ListComments answers for an issue: an error, or its comments
CommentAnswers ==
    {[failed |-> TRUE, comments |-> <<>>]}
    \cup {[failed |-> FALSE, comments |-> Ids(n)] : n \in 0..MaxComments}

\* an item of the listing: an issue or a pull request.  The item at position
\* k of the listing has number k.
ItemShapes == [number : {0}, isPR : BOOLEAN, answer : CommentAnswers]
Listings ==
    {[k \in 1..Len(l) |-> [l[k] EXCEPT !.number = k]] : l \in SeqsUpTo(ItemShapes, MaxItems)}

\* what Issues.ListByRepo answers: an error, or the items
ListAnswers ==
    [failed : {TRUE}, items : {<<>>}] \cup [failed : {FALSE}, items : Listings]

\* issue.IsPullRequest()
IsPullRequestNever(item) == FALSE
IsPullRequest(item) == item.isPR

\* Issue{ID: ..., Comments: comments}
IssueOf(item, comments) == [ID |-> item.number, Comments |-> comments]

\* the result of GetIssues: the slice (nil or not) and the error
GhResult(issues, isNil, e) == [issues |-> issues, isNil |-> isNil, err |-> e]
NoGhResult == GhResult(<<>>, TRUE, "")
NoGhLoc == [k |-> 0, issues |-> <<>>, calls |-> 0]

\* ------------------------------------------------------------------------
\* State
\* ------------------------------------------------------------------------
VARIABLES
    args,             \* gitLogsJSON, issues, configPath (the source it names), outputPath
    env,              \* the process environment
    dest,             \* content of the file at outputPath
    pc,               \* position of the invocation
    cfg,              \* cfg of GenerateReport
    clientOpts,       \* the option appended to clientOpts
    envRead,          \* environment variables read through os.Getenv
    logs,             \* logs, after json.Unmarshal
    totalChunks,      \* totalChunks
    i,                \* index of the running chunk loop
    commitsFinalResp, \* commitsFinalResp
    issuesFinalResp,  \* issuesFinalResp
    finalResp,        \* finalResp
    turns,            \* every cs.SendMessage call made, in order, with its outcome
    client,           \* "none", "open" (genai.NewClient succeeded), "closed"
    newClientCalls,   \* number of genai.NewClient calls
    closeCalls,       \* number of client.Close calls
    writes,           \* every os.WriteFile call made, in order, with its outcome
    ret,              \* the string returned
    err,              \* the error returned
    xResp,            \* extractor run: the response
    xOut,             \* extractor run: the text returned
    xPc,              \* extractor run: position
    gcIn,             \* GetContributors: repository path, git log outcome, its output
    gcOut,            \* GetContributors: the contributors and the error returned
    gcPc,             \* GetContributors: position
    gcRuns,           \* GetContributors: number of git commands run
    call,             \* "pending" while the invocation is inside cs.SendMessage
    inflight,         \* number of cs.SendMessage calls issued and not yet returned
    issued,           \* every message handed to cs.SendMessage, in order
    glIn,             \* GetLogsJSON: repository path, git log outcome, its output
    glOut,            \* GetLogsJSON: the text and the error returned
    glPc,             \* GetLogsJSON: position
    glRuns,           \* GetLogsJSON: number of git commands run
    glLoc,            \* GetLogsJSON: commitOrder, logEntriesMap, finalLogEntries, loop index
    ghIn,             \* GetIssues: what the GitHub API answers
    ghOut,            \* GetIssues: the issues and the error returned
    ghPc,             \* GetIssues: position
    ghLoc             \* GetIssues: loop index, issues, API calls made

vars == <<args, env, dest, pc, cfg, clientOpts, envRead, logs, totalChunks, i,
          commitsFinalResp, issuesFinalResp, finalResp, turns, client,
          newClientCalls, closeCalls, writes, ret, err, xResp, xOut, xPc,
          gcIn, gcOut, gcPc, gcRuns, call, inflight, issued,
          glIn, glOut, glPc, glRuns, glLoc, ghIn, ghOut, ghPc, ghLoc>>

inputVars == <<args, env>>
extractVars == <<xResp, xOut, xPc>>
gcVars == <<gcIn, gcOut, gcPc, gcRuns>>
callVars == <<call, inflight, issued>>
glVars == <<glIn, glOut, glPc, glRuns, glLoc>>
ghVars == <<ghIn, ghOut, ghPc, ghLoc>>
pkgVars == <<gcVars, glVars, ghVars>>
respVars == <<commitsFinalResp, issuesFinalResp, finalResp>>

Locals ==
    /\ cfg = NilCfg
    /\ clientOpts = NoOpt
    /\ envRead = {}
    /\ logs = <<>>
    /\ totalChunks = 0
    /\ i = 0
    /\ commitsFinalResp = NilResp
    /\ issuesFinalResp = NilResp
    /\ finalResp = NilResp
    /\ turns = <<>>
    /\ client = "none"
    /\ newClientCalls = 0
    /\ closeCalls = 0
    /\ writes = <<>>
    /\ ret = ""
    /\ err = NoErr
    /\ call = "none"
    /\ inflight = 0
    /\ issued = <<>>

\* no GetContributors call is running
IdleRepo == [repoPath |-> [text |-> "", absOK |-> TRUE, stat |-> "notexist",
                           gitStat |-> "notexist"],
             run |-> [failed |-> FALSE, stderr |-> ""],
             stdout |-> <<>>]
GcIdle == gcIn = IdleRepo /\ gcOut = NoGcResult /\ gcPc = "off" /\ gcRuns = 0

\* no GetLogsJSON call is running
IdleLogs == [repoPath |-> IdleRepo.repoPath, run |-> IdleRepo.run, blocks |-> <<>>]
GlIdle ==
    glIn = IdleLogs /\ glOut = NoGlResult /\ glPc = "off" /\ glRuns = 0 /\ glLoc = NoGlLoc

\* no GetIssues call is running
IdleListing == [failed |-> FALSE, items |-> <<>>]
GhIdle == ghIn = IdleListing /\ ghOut = NoGhResult /\ ghPc = "off" /\ ghLoc = NoGhLoc

Init ==
    /\ args \in [gitLogsJSON : CommitFeeds, issues : IssueLists,
                 config : ConfigInputs, outputPath : {"", "report.md"}]
    /\ env \in Environments
    /\ dest = OldContent
    /\ pc = "start"
    /\ Locals
    /\ xResp = NilResp /\ xOut = "" /\ xPc = "off"
    /\ GcIdle
    /\ GlIdle
    /\ GhIdle

ReturnPartial(r, e) ==
    /\ pc' = "done"
    /\ ret' = IF e.kind = "nil" THEN r ELSE extractTextFromResponse(commitsFinalResp)
    /\ err' = e
    /\ client' = IF client = "open" THEN "closed" ELSE client
    /\ closeCalls' = IF client = "open" THEN closeCalls + 1 ELSE closeCalls

ReturnCloseOnSuccessOnly(r, e) ==
    /\ pc' = "done"
    /\ ret' = r
    /\ err' = e
    /\ client' = IF client = "open" /\ e.kind = "nil" THEN "closed" ELSE client
    /\ closeCalls' = IF client = "open" /\ e.kind = "nil" THEN closeCalls + 1 ELSE closeCalls

\* return r, e: the deferred client.Close() runs when a client was created
Return(r, e) ==
    /\ pc' = "done"
    /\ ret' = r
    /\ err' = e
    /\ client' = IF client = "open" THEN "closed" ELSE client
    /\ closeCalls' = IF client = "open" THEN closeCalls + 1 ELSE closeCalls

\* --- 1. Load Configuration ---
LoadConfigStep ==
    /\ pc = "start"
    /\ LET res == LoadConfig(args.config) IN
         IF res.isNil
             THEN /\ Return("", Err("config", res.err))
                  /\ UNCHANGED cfg
             ELSE /\ cfg' = res.cfg
                  /\ pc' = "auth"
                  /\ UNCHANGED <<ret, err, client, closeCalls>>
    /\ UNCHANGED <<inputVars, dest, clientOpts, envRead, logs, totalChunks, i,
                   respVars, turns, newClientCalls, writes, extractVars, pkgVars, callVars>>

\* --- 2. Setup Authentication ---
AuthStep ==
    /\ pc = "auth"
    /\ LET sel == SelectAuth(cfg, env) IN
         /\ envRead' = sel.read
         /\ IF sel.ok
                THEN /\ clientOpts' = sel.opt
                     /\ pc' = "parse"
                     /\ UNCHANGED <<ret, err, client, closeCalls>>
                ELSE /\ Return("", Err("auth", sel.msg))
                     /\ UNCHANGED clientOpts
    /\ UNCHANGED <<inputVars, dest, cfg, logs, totalChunks, i, respVars, turns,
                   newClientCalls, writes, extractVars, pkgVars, callVars>>

\* one os.WriteFile call on the destination
DoWrite(data, o) ==
    /\ dest' = o.content
    /\ writes' = Append(writes, [data |-> data, failed |-> o.failed])

\* --- 3. Parse Input JSON ---
\* json.Unmarshal, the "[]" special case of its error branch, and the
\* len(logs) == 0 exit
ParseStep ==
    /\ pc = "parse"
    /\ LET u == Unmarshal(args.gitLogsJSON) IN
         IF u.err
             THEN /\ UNCHANGED logs
                  /\ IF TrimSpaceIsEmptyArray(args.gitLogsJSON) /\ args.outputPath # ""
                         THEN \E o \in WriteOutcomes(dest, NoActivityDoc) :
                                  /\ DoWrite(NoActivityDoc, o)
                                  /\ IF o.failed
                                         THEN Return("", Err("write_empty", ""))
                                         ELSE Return("", NoErr)
                         ELSE /\ Return("", Err("parse", ""))
                              /\ UNCHANGED <<dest, writes>>
             ELSE /\ logs' = u.logs
                  /\ IF Len(u.logs) = 0 /\ args.outputPath # ""
                         THEN \E o \in WriteOutcomes(dest, NoActivityDoc) :
                                  \* _ = os.WriteFile(...): the error is dropped
                                  /\ DoWrite(NoActivityDoc, o)
                                  /\ Return("", NoErr)
                         ELSE /\ pc' = "client"
                              /\ UNCHANGED <<dest, writes, ret, err, client, closeCalls>>
    /\ UNCHANGED <<inputVars, cfg, clientOpts, envRead, totalChunks, i, respVars,
                   turns, newClientCalls, extractVars, pkgVars, callVars>>

\* --- 5. Initialize Gemini Client --- genai.NewClient, defer client.Close(),
\* client.GenerativeModel, model.StartChat
NewClientStep ==
    /\ pc = "client"
    /\ newClientCalls' = newClientCalls + 1
    /\ \E r \in NewClientResults :
         IF ClientFailed(r)
             THEN Return("", Err("client", r.cause))
             ELSE /\ client' = "open"
                  /\ pc' = "initial"
                  /\ UNCHANGED <<ret, err, closeCalls>>
    /\ UNCHANGED <<inputVars, dest, cfg, clientOpts, envRead, logs, totalChunks, i,
                   respVars, turns, writes, extractVars, pkgVars, callVars>>

\* the number of cs.SendMessage calls after which the model stops issuing
\* more: above every count the loops of GenerateReport can reach
MaxTurns == 4 + MaxCommits + MaxIssues

\* cs.SendMessage is a synchronous call: the invocation stays inside it
\* until the response or the error is there
NeverBlocked(c) == FALSE
Blocked(c) == c = "pending"

\* the position is at a cs.SendMessage call
AtSendPosition == pc \in {"initial", "commits", "issues"}

\* the argument of the cs.SendMessage call at the current position
NextMessage ==
    IF pc = "initial" THEN InstructionMsg
    ELSE IF pc = "commits" /\ i < Len(logs)
        THEN CommitChunkMsg(Slice(logs, i, ChunkEnd(i, cfg.ChunkSize, Len(logs))))
    ELSE IF pc = "commits" /\ IssuesSupplied(args.issues) THEN IssuesIntroMsg
    ELSE IF pc = "issues" /\ i < Len(args.issues)
        THEN IssueChunkMsg(Slice(args.issues, i,
                                 ChunkEnd(i, cfg.ChunkSize, Len(args.issues))))
    ELSE FinalPromptMsg

\* cs.SendMessage is entered: the message goes out
IssueTurn ==
    /\ AtSendPosition
    /\ ~Blocked(call)
    /\ Len(issued) < MaxTurns
    /\ call' = "pending"
    /\ inflight' = inflight + 1
    /\ issued' = Append(issued, NextMessage)
    /\ UNCHANGED <<inputVars, dest, pc, cfg, clientOpts, envRead, logs, totalChunks,
                   i, respVars, turns, client, newClientCalls, closeCalls, writes,
                   ret, err, extractVars, pkgVars>>

\* cs.SendMessage returns
CompleteCall ==
    /\ call' = "none"
    /\ inflight' = inflight - 1
    /\ UNCHANGED issued

\* cs.SendMessage(ctx, genai.Text(initialPrompt)), then totalChunks
SendInitial ==
    /\ call = "pending"
    /\ pc = "initial"
    /\ \E r \in SendResults :
         /\ turns' = Append(turns, [msg |-> InstructionMsg, ok |-> r.ok, cause |-> r.cause])
         /\ IF TurnFailed(r)
                THEN /\ Return("", Err("initial", r.cause))
                     /\ UNCHANGED <<totalChunks, i>>
                ELSE /\ totalChunks' = Ceil(Len(logs), cfg.ChunkSize)
                     /\ i' = 0
                     /\ pc' = "commits"
                     /\ UNCHANGED <<ret, err, client, closeCalls>>
    /\ UNCHANGED <<inputVars, dest, cfg, clientOpts, envRead, logs, respVars,
                   newClientCalls, writes, extractVars, pkgVars>>
    /\ CompleteCall

\* one iteration of: for i := 0; i < len(logs); i += cfg.ChunkSize
SendCommitChunk ==
    /\ call = "pending"
    /\ pc = "commits"
    /\ i < Len(logs)
    /\ LET end == ChunkEnd(i, cfg.ChunkSize, Len(logs))
           chunk == Slice(logs, i, end)
       IN \E r \in SendResults :
            /\ turns' = Append(turns, [msg |-> CommitChunkMsg(chunk), ok |-> r.ok, cause |-> r.cause])
            /\ IF TurnFailed(r)
                   THEN /\ Return("", ChunkErr("commit_chunk",
                                               ChunkNo(i, cfg.ChunkSize), totalChunks,
                                               r.cause))
                        /\ UNCHANGED <<i, commitsFinalResp>>
                   ELSE /\ commitsFinalResp' = r.resp
                        /\ i' = Advance(i, cfg.ChunkSize)
                        /\ UNCHANGED <<pc, ret, err, client, closeCalls>>
    /\ UNCHANGED <<inputVars, dest, cfg, clientOpts, envRead, logs, totalChunks,
                   issuesFinalResp, finalResp, newClientCalls, writes, extractVars, pkgVars>>
    /\ CompleteCall

\* if len(issues) > 0: the introduction message
SendIssuesIntro ==
    /\ call = "pending"
    /\ pc = "commits"
    /\ i >= Len(logs)
    /\ IssuesSupplied(args.issues)
    /\ \E r \in SendResults :
         /\ turns' = Append(turns, [msg |-> IssuesIntroMsg, ok |-> r.ok, cause |-> r.cause])
         /\ IF TurnFailed(r)
                THEN /\ Return("", Err("issues_intro", r.cause))
                     /\ UNCHANGED i
                ELSE /\ i' = 0
                     /\ pc' = "issues"
                     /\ UNCHANGED <<ret, err, client, closeCalls>>
    /\ UNCHANGED <<inputVars, dest, cfg, clientOpts, envRead, logs, totalChunks,
                   respVars, newClientCalls, writes, extractVars, pkgVars>>
    /\ CompleteCall

\* one iteration of: for i := 0; i < len(issues); i += cfg.ChunkSize
SendIssueChunk ==
    /\ call = "pending"
    /\ pc = "issues"
    /\ i < Len(args.issues)
    /\ LET end == ChunkEnd(i, cfg.ChunkSize, Len(args.issues))
           chunk == Slice(args.issues, i, end)
       IN \E r \in SendResults :
            /\ turns' = Append(turns, [msg |-> IssueChunkMsg(chunk), ok |-> r.ok, cause |-> r.cause])
            /\ IF TurnFailed(r)
                   THEN /\ Return("", ChunkErr("issue_chunk",
                                               ChunkNo(i, cfg.ChunkSize), totalChunks,
                                               r.cause))
                        /\ UNCHANGED <<i, issuesFinalResp>>
                   ELSE /\ issuesFinalResp' = r.resp
                        /\ i' = Advance(i, cfg.ChunkSize)
                        /\ UNCHANGED <<pc, ret, err, client, closeCalls>>
    /\ UNCHANGED <<inputVars, dest, cfg, clientOpts, envRead, logs, totalChunks,
                   commitsFinalResp, finalResp, newClientCalls, writes, extractVars, pkgVars>>
    /\ CompleteCall

\* --- 7. Send Final Prompt ---
SendFinal ==
    /\ call = "pending"
    /\ \/ pc = "commits" /\ i >= Len(logs) /\ ~IssuesSupplied(args.issues)
       \/ pc = "issues" /\ i >= Len(args.issues)
    /\ \E r \in SendResults :
         /\ turns' = Append(turns, [msg |-> FinalPromptMsg, ok |-> r.ok, cause |-> r.cause])
         /\ IF TurnFailed(r)
                THEN /\ Return("", Err("final", r.cause))
                     /\ UNCHANGED finalResp
                ELSE /\ finalResp' = r.resp
                     /\ pc' = "extract"
                     /\ UNCHANGED <<ret, err, client, closeCalls>>
    /\ UNCHANGED <<inputVars, dest, cfg, clientOpts, envRead, logs, totalChunks, i,
                   commitsFinalResp, issuesFinalResp, newClientCalls, writes,
                   extractVars, pkgVars>>
    /\ CompleteCall

\* reportContent := extractTextFromResponse(finalResp), with its placeholder
ReportContentWithFallback(final, commits, issues) ==
    IF extractTextFromResponse(final) # "" THEN extractTextFromResponse(final)
    ELSE IF extractTextFromResponse(issues) # "" THEN extractTextFromResponse(issues)
    ELSE IF extractTextFromResponse(commits) # "" THEN extractTextFromResponse(commits)
    ELSE ExtractErrorDoc
ReportContent(final, commits, issues) ==
    IF extractTextFromResponse(final) = ""
        THEN ExtractErrorDoc
        ELSE extractTextFromResponse(final)

\* --- 8. Extract Final AI Response, Save and Print Report ---
Finalize ==
    /\ pc = "extract"
    /\ IF finalResp.isNil /\ args.outputPath # ""
           THEN \E o \in WriteOutcomes(dest, NoResponseDoc) :
                    \* _ = os.WriteFile(...): the error is dropped
                    /\ DoWrite(NoResponseDoc, o)
                    /\ Return("", NoErr)
           ELSE LET reportContent ==
                        ReportContent(finalResp, commitsFinalResp, issuesFinalResp)
                IN IF args.outputPath # ""
                       THEN \E o \in WriteOutcomes(dest, reportContent) :
                                /\ DoWrite(reportContent, o)
                                /\ IF o.failed
                                       THEN Return("", Err("write_report", ""))
                                       ELSE Return(reportContent, NoErr)
                       ELSE /\ Return(reportContent, NoErr)
                            /\ UNCHANGED <<dest, writes>>
    /\ UNCHANGED <<inputVars, cfg, clientOpts, envRead, logs, totalChunks, i,
                   respVars, turns, newClientCalls, extractVars, pkgVars, callVars>>

Next ==
    \/ LoadConfigStep
    \/ AuthStep
    \/ ParseStep
    \/ NewClientStep
    \/ IssueTurn
    \/ SendInitial
    \/ SendCommitChunk
    \/ SendIssuesIntro
    \/ SendIssueChunk
    \/ SendFinal
    \/ Finalize

Spec == Init /\ [][Next]_vars

\* every call GenerateReport makes returns: the invocation keeps taking steps
SpecLive == Init /\ [][Next]_vars /\ WF_vars(Next)

\* ------------------------------------------------------------------------
\* extractTextFromResponse on its own: every response of AllResponses
\* ------------------------------------------------------------------------
IdleArgs == [gitLogsJSON |-> [doc |-> "array", ws |-> FALSE, elems |-> <<>>],
             issues |-> <<>>,
             config |-> [path |-> "", exists |-> FALSE, readable |-> FALSE,
                         yamlOK |-> FALSE, ChunkSize |-> 0, ProjectID |-> "",
                         Location |-> "", GeminiModel |-> "",
                         CredentialsFile |-> ""],
             outputPath |-> ""]

InitExtract ==
    /\ args = IdleArgs
    /\ env = [GOOGLE_APPLICATION_CREDENTIALS |-> "", VERTEX_AI_API_KEY |-> ""]
    /\ dest = OldContent
    /\ pc = "off"
    /\ Locals
    /\ xResp \in AllResponses
    /\ xOut = ""
    /\ xPc = "call"
    /\ GcIdle
    /\ GlIdle
    /\ GhIdle

ExtractStep ==
    /\ xPc = "call"
    /\ xOut' = extractTextFromResponse(xResp)
    /\ xPc' = "returned"
    /\ UNCHANGED <<args, env, dest, pc, cfg, clientOpts, envRead, logs, totalChunks,
                   i, respVars, turns, client, newClientCalls, closeCalls, writes,
                   ret, err, xResp, pkgVars, callVars>>

NextExtract ==
    \/ ExtractStep

SpecExtract == InitExtract /\ [][NextExtract]_vars

\* ------------------------------------------------------------------------
\* GenerateReport on every configuration source, with any number of defects
\* ------------------------------------------------------------------------
InitConfig ==
    /\ args \in [gitLogsJSON : CommitFeeds, issues : IssueLists,
                 config : RawConfigs, outputPath : {"report.md"}]
    /\ env = [GOOGLE_APPLICATION_CREDENTIALS |-> "", VERTEX_AI_API_KEY |-> "k3y"]
    /\ dest = OldContent
    /\ pc = "start"
    /\ Locals
    /\ xResp = NilResp /\ xOut = "" /\ xPc = "off"
    /\ GcIdle
    /\ GlIdle
    /\ GhIdle

SpecConfig == InitConfig /\ [][Next]_vars

\* ------------------------------------------------------------------------
\* GetContributors(repoPath, opts) on its own
\* ------------------------------------------------------------------------
\* a repository path; for a path that is a git repository, what git log does
\* and prints
GcInputs ==
    [repoPath : {p \in RepoPaths : p.gitStat = "ok"}, run : GitRuns, stdout : LogOutputs]
    \cup [repoPath : RepoPaths, run : {IdleRepo.run}, stdout : {<<>>}]

InitContributors ==
    /\ args = IdleArgs
    /\ env = [GOOGLE_APPLICATION_CREDENTIALS |-> "", VERTEX_AI_API_KEY |-> ""]
    /\ dest = OldContent
    /\ pc = "off"
    /\ Locals
    /\ xResp = NilResp /\ xOut = "" /\ xPc = "off"
    /\ gcIn \in GcInputs
    /\ gcOut = NoGcResult
    /\ gcPc = "call"
    /\ gcRuns = 0
    /\ GlIdle
    /\ GhIdle

genVars == <<args, env, dest, pc, cfg, clientOpts, envRead, logs, totalChunks, i,
             respVars, turns, client, newClientCalls, closeCalls, writes, ret, err,
             callVars>>

\* absRepoPath, err := validateRepoPath(repoPath); if err != nil { return nil, err }
GcValidate ==
    /\ gcPc = "call"
    /\ LET e == validateRepoPath(gcIn.repoPath) IN
         IF e # ""
             THEN /\ gcOut' = GcResult(<<>>, TRUE, e)
                  /\ gcPc' = "returned"
             ELSE /\ gcPc' = "git"
                  /\ UNCHANGED gcOut
    /\ UNCHANGED <<genVars, extractVars, gcIn, gcRuns, glVars, ghVars>>

\* cmd.Run() and everything after it: the error branch, the scanner loop,
\* the conversion of the map to a slice and the sort
GcRunGit ==
    /\ gcPc = "git"
    /\ gcRuns' = gcRuns + 1
    /\ gcPc' = "returned"
    /\ IF gcIn.run.failed
           THEN gcOut' = RunErrorResult(gcIn.run, gcIn.stdout)
       ELSE IF ScannerErr(gcIn.stdout)
           THEN gcOut' = GcResult(<<>>, TRUE, "error reading git log output")
       ELSE \E cs \in SortedContributors(Aggregate(EmptyMap, Scanned(gcIn.stdout))) :
                gcOut' = GcResult(cs, FALSE, "")
    /\ UNCHANGED <<genVars, extractVars, gcIn, glVars, ghVars>>

NextContributors ==
    \/ GcValidate
    \/ GcRunGit

SpecContributors == InitContributors /\ [][NextContributors]_vars

\* ------------------------------------------------------------------------
\* GetLogsJSON(repoPath, opts) on its own
\* ------------------------------------------------------------------------
GlInputs ==
    [repoPath : {p \in RepoPaths : p.gitStat = "ok"}, run : GitRuns, blocks : LogBlocks]
    \cup [repoPath : RepoPaths, run : {IdleRepo.run}, blocks : {<<>>}]

NotGenerating ==
    /\ args = IdleArgs
    /\ env = [GOOGLE_APPLICATION_CREDENTIALS |-> "", VERTEX_AI_API_KEY |-> ""]
    /\ dest = OldContent
    /\ pc = "off"
    /\ Locals
    /\ xResp = NilResp /\ xOut = "" /\ xPc = "off"

InitLogs ==
    /\ NotGenerating
    /\ GcIdle
    /\ GhIdle
    /\ glIn \in GlInputs
    /\ glOut = NoGlResult
    /\ glPc = "call"
    /\ glRuns = 0
    /\ glLoc = NoGlLoc

\* absRepoPath, err := validateRepoPath(repoPath); if err != nil { return "", err }
GlValidate ==
    /\ glPc = "call"
    /\ LET e == gitlogs_validateRepoPath(glIn.repoPath) IN
         IF e # ""
             THEN /\ glOut' = GlResult("", <<>>, e)
                  /\ glPc' = "returned"
             ELSE /\ glPc' = "log"
                  /\ UNCHANGED glOut
    /\ UNCHANGED <<genVars, extractVars, gcVars, ghVars, glIn, glRuns, glLoc>>

\* Pass 1: cmdLog.Run(), its error branch, the empty output, the first loop
GlRunLog ==
    /\ glPc = "log"
    /\ glRuns' = glRuns + 1
    /\ IF glIn.run.failed
           THEN /\ glOut' = LogErrorResult(glIn.run, glIn.blocks)
                /\ glPc' = "returned"
                /\ UNCHANGED glLoc
       ELSE IF glIn.blocks = <<>>
           THEN /\ glOut' = GlResult("[]", <<>>, "")
                /\ glPc' = "returned"
                /\ UNCHANGED glLoc
       ELSE LET parsed == ParseBlocks([commitOrder |-> <<>>, logEntriesMap |-> EmptyMap],
                                      glIn.blocks)
            IN /\ glLoc' = [commitOrder |-> parsed.commitOrder,
                            logEntriesMap |-> parsed.logEntriesMap,
                            finalLogEntries |-> <<>>, j |-> 1]
               /\ glPc' = "show"
               /\ UNCHANGED glOut
    /\ UNCHANGED <<genVars, extractVars, gcVars, ghVars, glIn>>

\* Pass 2, one iteration of: for _, hash := range commitOrder
GlShow ==
    /\ glPc = "show"
    /\ glLoc.j <= Len(glLoc.commitOrder)
    /\ glRuns' = glRuns + 1
    /\ LET hash == glLoc.commitOrder[glLoc.j] IN
         glLoc' = [glLoc EXCEPT
                      !.finalLogEntries = ShowCommit(glLoc.finalLogEntries,
                                                     glLoc.logEntriesMap, hash,
                                                     glIn.blocks[hash].show),
                      !.j = glLoc.j + 1]
    /\ UNCHANGED <<genVars, extractVars, gcVars, ghVars, glIn, glOut, glPc>>

\* json.MarshalIndent(finalLogEntries, "", "  ") and the return
GlMarshal ==
    /\ glPc = "show"
    /\ glLoc.j > Len(glLoc.commitOrder)
    /\ glOut' = MarshalIndent(glLoc.finalLogEntries)
    /\ glPc' = "returned"
    /\ UNCHANGED <<genVars, extractVars, gcVars, ghVars, glIn, glRuns, glLoc>>

NextLogs ==
    \/ GlValidate
    \/ GlRunLog
    \/ GlShow
    \/ GlMarshal

SpecLogs == InitLogs /\ [][NextLogs]_vars

\* ------------------------------------------------------------------------
\* GetContributors and GetLogsJSON on the same repository paths
\* ------------------------------------------------------------------------
InitGit ==
    /\ NotGenerating
    /\ GhIdle
    /\ \/ /\ gcIn \in GcInputs
          /\ gcOut = NoGcResult /\ gcPc = "call" /\ gcRuns = 0
          /\ GlIdle
       \/ /\ glIn \in GlInputs
          /\ glOut = NoGlResult /\ glPc = "call" /\ glRuns = 0 /\ glLoc = NoGlLoc
          /\ GcIdle

NextGit ==
    \/ GcValidate
    \/ GcRunGit
    \/ GlValidate
    \/ GlRunLog
    \/ GlShow
    \/ GlMarshal

SpecGit == InitGit /\ [][NextGit]_vars

\* ------------------------------------------------------------------------
\* GitHubClient.GetIssues(metadata) on its own
\* ------------------------------------------------------------------------
InitIssues ==
    /\ NotGenerating
    /\ GcIdle
    /\ GlIdle
    /\ ghIn \in ListAnswers
    /\ ghOut = NoGhResult
    /\ ghPc = "call"
    /\ ghLoc = NoGhLoc

\* gh.client.Issues.ListByRepo(...); if err != nil { return nil, ... }
GhListByRepo ==
    /\ ghPc = "call"
    /\ IF ghIn.failed
           THEN /\ ghOut' = GhResult(<<>>, TRUE, "error al obtener los problemas de GitHub")
                /\ ghPc' = "returned"
                /\ ghLoc' = [ghLoc EXCEPT !.calls = ghLoc.calls + 1]
           ELSE /\ ghPc' = "loop"
                /\ ghLoc' = [k |-> 1, issues |-> <<>>, calls |-> ghLoc.calls + 1]
                /\ UNCHANGED ghOut
    /\ UNCHANGED <<genVars, extractVars, gcVars, glVars, ghIn>>

\* one iteration of: for _, issue := range ghIssues
GhIssue ==
    /\ ghPc = "loop"
    /\ ghLoc.k <= Len(ghIn.items)
    /\ LET issue == ghIn.items[ghLoc.k] IN
         IF IsPullRequest(issue)
             THEN /\ ghLoc' = [ghLoc EXCEPT !.k = ghLoc.k + 1]
                  /\ UNCHANGED <<ghOut, ghPc>>
         ELSE IF issue.answer.failed
             THEN /\ ghOut' = GhResult(<<>>, TRUE,
                                       "error al obtener los comentarios del problema")
                  /\ ghPc' = "returned"
                  /\ ghLoc' = [ghLoc EXCEPT !.calls = ghLoc.calls + 1]
         ELSE /\ ghLoc' = [k |-> ghLoc.k + 1,
                           issues |-> Append(ghLoc.issues,
                                             IssueOf(issue, issue.answer.comments)),
                           calls |-> ghLoc.calls + 1]
              /\ UNCHANGED <<ghOut, ghPc>>
    /\ UNCHANGED <<genVars, extractVars, gcVars, glVars, ghIn>>

\* return issues, nil
GhReturn ==
    /\ ghPc = "loop"
    /\ ghLoc.k > Len(ghIn.items)
    /\ ghOut' = GhResult(ghLoc.issues, ghLoc.issues = <<>>, "")
    /\ ghPc' = "returned"
    /\ UNCHANGED <<genVars, extractVars, gcVars, glVars, ghIn, ghLoc>>

NextIssues ==
    \/ GhListByRepo
    \/ GhIssue
    \/ GhReturn

SpecIssues == InitIssues /\ [][NextIssues]_vars

\* ========================================================================
\* Properties
\* ========================================================================
NumCommits == Len(Unmarshal(args.gitLogsJSON).logs)
NumIssues == Len(args.issues)
FeedParses == ~Unmarshal(args.gitLogsJSON).err
ParsesToZeroRecords == FeedParses /\ NumCommits = 0

\* ceil(n / c) in integer arithmetic
CeilDiv(n, c) == (n + c - 1) \div c

TurnsOfKind(k) == SelectSeq(turns, LAMBDA t : t.msg.kind = k)
LastTurn == turns[Len(turns)]
FinalTurnAnswered ==
    turns # <<>> /\ LastTurn.msg.kind = "final" /\ LastTurn.ok

RECURSIVE ConcatRecs(_)
ConcatRecs(ts) ==
    IF ts = <<>> THEN <<>> ELSE Head(ts).msg.recs \o ConcatRecs(Tail(ts))

\* C1: a commit feed that parses to zero records causes no backend call (no
\* client construction, no session turn), with or without a destination, and
\* the output of the finished call is the no-activity placeholder.
C1_EmptyFeedNoBackendCall ==
    ParsesToZeroRecords =>
        /\ newClientCalls = 0
        /\ client = "none"
        /\ turns = <<>>
        /\ (pc = "done" /\ err = NoErr /\ args.outputPath # ""
                => writes # <<>> /\ writes[1].data = NoActivityDoc)

C2_Content ==
    IF finalResp.isNil /\ args.outputPath # "" THEN NoResponseDoc
    ELSE IF extractTextFromResponse(finalResp) = "" THEN ExtractErrorDoc
    ELSE extractTextFromResponse(finalResp)

\* C2: once the final prompt has been answered, the content handed to the
\* destination write, or returned, is a function of the final response alone:
\* its text when it has one, otherwise a fixed notice (the no-response notice
\* for a nil response with a destination, the extraction-error notice in
\* every other case); no commit-chunk or issue-chunk response enters it.
C2_ReportFromFinalResponseOnly ==
    (pc = "done" /\ FinalTurnAnswered) =>
        /\ args.outputPath # "" =>
              /\ Len(writes) = 1
              /\ writes[1].data = C2_Content
              /\ ret \in {"", C2_Content}
        /\ args.outputPath = "" => writes = <<>> /\ ret = C2_Content

C2_Witness ==
    /\ pc = "done"
    /\ FinalTurnAnswered
    /\ extractTextFromResponse(finalResp) = ""
    /\ extractTextFromResponse(commitsFinalResp) # ""
    /\ extractTextFromResponse(issuesFinalResp) # ""
    /\ args.outputPath = ""
    /\ ret = ExtractErrorDoc

CommitLoopEnded ==
    \/ pc = "commits" /\ i >= Len(logs)
    \/ pc \in {"issues", "extract"}
    \/ pc = "done" /\ (TurnsOfKind("issues_intro") # <<>> \/ TurnsOfKind("final") # <<>>)

\* C3: for N >= 1 commits and chunk size C, the commit turns sent so far are
\* contiguous slices of at most C records that concatenate to a prefix of the
\* input, all but the last of exactly C records; once the commit loop has
\* ended there are exactly ceil(N/C) of them and they concatenate to the
\* whole input.
C3_CommitChunkPartition ==
    LET cts == TurnsOfKind("commits")
        N == Len(logs)
        C == cfg.ChunkSize
    IN  N >= 1 =>
            /\ \A k \in 1..Len(cts) :
                  /\ Len(cts[k].msg.recs) >= 1
                  /\ Len(cts[k].msg.recs) <= C
                  /\ k < Len(cts) => Len(cts[k].msg.recs) = C
                  /\ cts[k].msg.recs = SubSeq(logs, (k - 1) * C + 1,
                                              (k - 1) * C + Len(cts[k].msg.recs))
            /\ ConcatRecs(cts) = SubSeq(logs, 1, Len(ConcatRecs(cts)))
            /\ Len(cts) <= CeilDiv(N, C)
            /\ CommitLoopEnded =>
                  /\ Len(cts) = CeilDiv(N, C)
                  /\ ConcatRecs(cts) = logs
                  /\ \A r \in 1..N :
                        Cardinality({k \in 1..Len(cts) :
                            \E j \in 1..Len(cts[k].msg.recs) : cts[k].msg.recs[j] = logs[r]}) = 1

C3_Witness ==
    /\ CommitLoopEnded
    /\ Len(logs) = 3
    /\ cfg.ChunkSize = 2
    /\ Len(TurnsOfKind("commits")) = 2
    /\ turns[3].msg.recs = <<3>>

Rep(k, n) == [x \in 1..n |-> k]
ExpectedKinds(N, M, C) ==
    <<"instruction">> \o Rep("commits", CeilDiv(N, C))
    \o (IF M > 0 THEN <<"issues_intro">> \o Rep("issues", CeilDiv(M, C)) ELSE <<>>)
    \o <<"final">>

\* C4: a successful run with N >= 1 commits and M issues sends exactly: one
\* instruction, ceil(N/C) commit chunks, then only if M > 0 one issue
\* transition and ceil(M/C) issue chunks, then one final prompt, nothing more.
C4_TurnOrder ==
    (pc = "done" /\ err = NoErr /\ NumCommits >= 1) =>
        /\ [k \in 1..Len(turns) |-> turns[k].msg.kind]
               = ExpectedKinds(NumCommits, NumIssues, cfg.ChunkSize)
        /\ \A k \in 1..Len(turns) : turns[k].ok
        /\ ConcatRecs(TurnsOfKind("commits")) = logs
        /\ ConcatRecs(TurnsOfKind("issues")) = args.issues
        /\ NumIssues = 0 =>
              TurnsOfKind("issues_intro") = <<>> /\ TurnsOfKind("issues") = <<>>

C4_Witness ==
    /\ pc = "done"
    /\ err = NoErr
    /\ NumCommits = 3
    /\ cfg.ChunkSize = 2
    /\ NumIssues = 0
    /\ [k \in 1..Len(turns) |-> Len(turns[k].msg.recs)] = <<0, 2, 1, 0>>
    /\ LastTurn.msg.kind = "final"

AuthDecided == ~LoadConfig(args.config).isNil /\ pc \notin {"start", "auth"}

\* C5: authentication follows the precedence config credentials_file, then
\* GOOGLE_APPLICATION_CREDENTIALS, then VERTEX_AI_API_KEY, else an error
\* naming VERTEX_AI_API_KEY; a source below the selected one is never read.
C5_AuthPrecedence ==
    AuthDecided =>
        LET cf == args.config.CredentialsFile
            gac == env.GOOGLE_APPLICATION_CREDENTIALS
            key == env.VERTEX_AI_API_KEY
        IN  /\ cf # "" =>
                  /\ clientOpts = [kind |-> "credentials_file", value |-> cf,
                                   source |-> "config"]
                  /\ envRead = {}
            /\ (cf = "" /\ gac # "") =>
                  /\ clientOpts = [kind |-> "credentials_file", value |-> gac,
                                   source |-> "GOOGLE_APPLICATION_CREDENTIALS"]
                  /\ "VERTEX_AI_API_KEY" \notin envRead
            /\ (cf = "" /\ gac = "" /\ key # "") =>
                  clientOpts = [kind |-> "api_key", value |-> key,
                                source |-> "VERTEX_AI_API_KEY"]
            /\ (cf = "" /\ gac = "" /\ key = "") =>
                  /\ pc = "done"
                  /\ err.kind = "auth"
                  /\ err.msg = "VERTEX_AI_API_KEY"
                  /\ clientOpts = NoOpt
                  /\ newClientCalls = 0

C5_Witness ==
    /\ AuthDecided
    /\ args.config.CredentialsFile # ""
    /\ env.GOOGLE_APPLICATION_CREDENTIALS # ""
    /\ env.VERTEX_AI_API_KEY # ""
    /\ clientOpts.source = "config"
    /\ envRead = {}

\* C6: every destination write is atomic: after the call the destination
\* holds the full intended content, or the call returned an error and the
\* destination still holds its previous content.
C6_AtomicWrite ==
    (pc = "done" /\ writes # <<>>) =>
        \/ dest = writes[Len(writes)].data
        \/ err # NoErr /\ dest = OldContent

TurnErrorKinds ==
    {"initial", "commit_chunk", "issues_intro", "issue_chunk", "final"}

ErrorKindOf(kind) ==
    CASE kind = "instruction" -> "initial"
      [] kind = "commits" -> "commit_chunk"
      [] kind = "issues_intro" -> "issues_intro"
      [] kind = "issues" -> "issue_chunk"
      [] kind = "final" -> "final"

\* C8: a failed turn is the last turn of the session: nothing is sent after
\* it (no resend, no skip), and the call returns an error and no content.
C8_FailedTurnAborts ==
    \A k \in 1..Len(turns) :
        ~turns[k].ok =>
            /\ k = Len(turns)
            /\ pc = "done"
            /\ err.kind = ErrorKindOf(turns[k].msg.kind)
            /\ ret = ""

C8_Witness ==
    /\ Len(turns) = 3
    /\ turns[3].msg.kind = "commits"
    /\ ~turns[3].ok
    /\ Len(logs) = 3
    /\ pc = "done"
    /\ err.kind = "commit_chunk"

\* C9: when the call returns an error from configuration, authentication,
\* parsing, client initialization or a failed turn, no write of the
\* destination was made, the destination is as before, and the returned
\* string is empty.
C9_NoWriteOnFatalError ==
    (pc = "done" /\ err.kind \in {"config", "auth", "parse", "client"} \cup TurnErrorKinds) =>
        /\ writes = <<>>
        /\ dest = OldContent
        /\ ret = ""

C9_Witness ==
    /\ pc = "done"
    /\ err.kind = "final"
    /\ args.outputPath # ""
    /\ extractTextFromResponse(commitsFinalResp) # ""
    /\ writes = <<>>
    /\ ret = ""

\* C10: a failed destination write always makes the call return an error.
C10_WriteFailureSurfaced ==
    (pc = "done" /\ \E k \in 1..Len(writes) : writes[k].failed) => err # NoErr

RECURSIVE AllParts(_)
AllParts(cands) ==
    IF cands = <<>> THEN <<>>
    ELSE (IF Head(cands).hasContent THEN Head(cands).Parts ELSE <<>>)
         \o AllParts(Tail(cands))

RECURSIVE Join(_)
Join(ps) == IF ps = <<>> THEN "" ELSE Head(ps).val \o Join(Tail(ps))

TextPartsOf(resp) == SelectSeq(AllParts(resp.Candidates), LAMBDA p : p.isText)

\* C7: extractTextFromResponse returns "" for a nil response, for no
\* candidates and for candidates without content, and otherwise the
\* concatenation, candidate by candidate and part by part, of the text parts
\* alone.
C7_ExtractText ==
    xPc = "returned" =>
        /\ xResp.isNil => xOut = ""
        /\ xResp.Candidates = <<>> => xOut = ""
        /\ (\A k \in 1..Len(xResp.Candidates) : ~xResp.Candidates[k].hasContent)
               => xOut = ""
        /\ xOut = Join(TextPartsOf(xResp))

C7_Witness ==
    /\ xPc = "returned"
    /\ xResp = Resp(<<Cand(<<TextPart("a"), BlobPart("X")>>), Cand(<<TextPart("b")>>)>>)
    /\ xOut = "ab"

LastWrite == writes[Len(writes)]
NoticeDocs == {ExtractErrorDoc, NoResponseDoc}
PastParse == pc \notin {"start", "auth", "parse"} /\ err.kind \notin {"config", "auth"}

\* C11: a finished invocation ends with an error, or with a non-empty
\* document delivered: in the destination when one is supplied, in the
\* returned string when none is; never success with neither.
C11_DocumentOrError ==
    pc = "done" =>
        \/ err # NoErr
        \/ /\ args.outputPath # ""
           /\ writes # <<>>
           /\ dest = LastWrite.data
           /\ dest # ""
        \/ /\ args.outputPath = ""
           /\ ret # ""

\* C12: a feed that parses to zero records is finalized at once as the
\* successful no-activity outcome: no further step is taken, with a
\* destination the destination holds exactly the no-activity document, and
\* without one the call returns the empty result; no error either way.
C12_ZeroRecordsNoActivity ==
    (ParsesToZeroRecords /\ PastParse) =>
        /\ pc = "done"
        /\ err = NoErr
        /\ ret = ""
        /\ newClientCalls = 0
        /\ turns = <<>>
        /\ args.outputPath # "" => dest = NoActivityDoc
        /\ args.outputPath = "" => writes = <<>>

\* C13: when every turn was answered and the final response carries no
\* text, the invocation does not fail on that account and the content it
\* writes and the content it returns is one of the notice documents, never
\* the empty string.
C13_NoTextYieldsNotice ==
    (pc = "done" /\ FinalTurnAnswered /\ extractTextFromResponse(finalResp) = "") =>
        /\ err.kind \in {"nil", "write_report"}
        /\ args.outputPath # "" => (writes # <<>> /\ LastWrite.data \in NoticeDocs)
        /\ err = NoErr => ret \in NoticeDocs
        /\ (err = NoErr /\ args.outputPath # "") => dest \in NoticeDocs

\* C14: an invalid configuration source makes the invocation fail at its
\* first step: it ends with the configuration error, and no credential
\* source is read, no client option chosen, no client created, no turn sent
\* and no file written.
C14_InvalidConfigFailsFast ==
    (Defects(args.config) >= 1 /\ pc # "start") =>
        /\ pc = "done"
        /\ err.kind = "config"
        /\ ret = ""
        /\ cfg = NilCfg
        /\ envRead = {}
        /\ clientOpts = NoOpt
        /\ newClientCalls = 0
        /\ client = "none"
        /\ turns = <<>>
        /\ writes = <<>>
        /\ dest = OldContent

C14_Witness ==
    /\ pc = "done"
    /\ err.kind = "config"
    /\ args.config.GeminiModel = ""
    /\ env[apiKeyEnvVar] # ""

Loadable(c) == c.path # "" /\ c.exists /\ c.readable /\ c.yamlOK
OffendingFields(c) ==
    (IF c.ChunkSize <= 0 THEN {"chunk_size"} ELSE {})
    \cup (IF c.ProjectID = "" THEN {"project_id"} ELSE {})
    \cup (IF c.Location = "" THEN {"location"} ELSE {})
    \cup (IF c.GeminiModel = "" THEN {"gemini_model"} ELSE {})

\* C15: LoadConfig returns a configuration only when chunk_size > 0 and
\* project_id, location and gemini_model are non-empty; a source that loads
\* with all four valid gives its configuration; otherwise the result is no
\* configuration and an error, which for a source that loads names an
\* offending field; the configuration in use from the first turn on has
\* ChunkSize >= 1.
C15_LoadConfigValidates ==
    LET c == args.config
        res == LoadConfig(c)
    IN /\ ~res.isNil =>
              /\ OffendingFields(c) = {}
              /\ res.cfg = CfgOf(c)
              /\ res.err = ""
       /\ (Loadable(c) /\ OffendingFields(c) = {}) => ~res.isNil
       /\ res.isNil => (res.cfg = NilCfg /\ res.err # "")
       /\ (Loadable(c) /\ res.isNil) =>
              \E f \in OffendingFields(c) : Contains(res.err, f)
       /\ pc \in {"auth", "parse", "client", "initial", "commits", "issues", "extract"} =>
              (cfg = CfgOf(c) /\ cfg.ChunkSize >= 1)
       /\ (pc = "done" /\ err.kind # "config") => cfg.ChunkSize >= 1
       /\ (pc = "done" /\ err.kind = "config") => (cfg = NilCfg /\ err.msg = res.err)

C15_Witness ==
    /\ pc = "done"
    /\ err.kind = "config"
    /\ Loadable(args.config)
    /\ args.config.ChunkSize = 0
    /\ args.config.ProjectID = ""
    /\ err.msg = "chunk_size must be positive in config"

NoCredentialSource ==
    /\ ~LoadConfig(args.config).isNil
    /\ args.config.CredentialsFile = ""
    /\ env[credentialsFileEnvVar] = ""
    /\ env[apiKeyEnvVar] = ""

\* C16: with a valid configuration and no credential source, the invocation
\* ends at the authentication step with the authentication error: no client
\* is constructed, no turn is sent, nothing is written.
C16_AuthFailureAborts ==
    (NoCredentialSource /\ pc \notin {"start", "auth"}) =>
        /\ pc = "done"
        /\ err.kind = "auth"
        /\ err.msg = apiKeyEnvVar
        /\ ret = ""
        /\ clientOpts = NoOpt
        /\ newClientCalls = 0
        /\ client = "none"
        /\ closeCalls = 0
        /\ turns = <<>>
        /\ writes = <<>>

C16_Witness ==
    /\ NoCredentialSource
    /\ pc = "done"
    /\ err.kind = "auth"
    /\ NumCommits >= 1

CancelledTurn(k) == ~turns[k].ok /\ turns[k].cause = Cancelled

\* C18: once client creation fails, or a turn fails because the context is
\* cancelled, the invocation is over with the error of that operation: the
\* failed turn is the last one sent, no file has been written, the
\* destination is as it was and no content is returned.
C18_CancellationAborts ==
    /\ (newClientCalls >= 1 /\ client = "none") =>
           /\ pc = "done"
           /\ err.kind = "client"
           /\ err.msg \in FailureCauses
           /\ ret = ""
           /\ turns = <<>>
           /\ writes = <<>>
           /\ dest = OldContent
    /\ \A k \in 1..Len(turns) :
           CancelledTurn(k) =>
               /\ k = Len(turns)
               /\ pc = "done"
               /\ err.kind = ErrorKindOf(turns[k].msg.kind)
               /\ err.msg = Cancelled
               /\ ret = ""
               /\ finalResp = NilResp
               /\ writes = <<>>
               /\ dest = OldContent

C18_Witness ==
    /\ pc = "done"
    /\ args.outputPath # ""
    /\ Len(turns) >= 4
    /\ CancelledTurn(Len(turns))
    /\ LastTurn.msg.kind = "issues"
    /\ err.msg = Cancelled

\* C19: a client that was constructed is closed exactly once, at the return
\* of the invocation and on every exit path; it is open at every position
\* between its construction and the return, every turn is sent on an open
\* client, and nothing happens to the client or the session after the
\* return.
C19_ClientClosedOnce ==
    /\ newClientCalls <= 1
    /\ client = "none" => (closeCalls = 0 /\ turns = <<>>)
    /\ client = "open" =>
           (closeCalls = 0 /\ pc \in {"initial", "commits", "issues", "extract"})
    /\ client = "closed" => (closeCalls = 1 /\ pc = "done")
    /\ pc \in {"initial", "commits", "issues", "extract"} => client = "open"
    /\ pc = "done" => client # "open"
    /\ (pc = "done" /\ (turns # <<>> \/ err.kind \in TurnErrorKinds \cup {"write_report"}))
           => (client = "closed" /\ closeCalls = 1)

C19_Witness ==
    /\ pc = "done"
    /\ client = "closed"
    /\ closeCalls = 1
    /\ err.kind = "write_report"

\* git log failed because the repository has no commits
EmptyRepositoryFailure(run) ==
    run.failed /\ run.stderr \in {NoCommitsYet, BadDefaultRevision}

\* C20: when git log fails, GetContributors returns an empty result and no
\* error if the failure is the one of a repository without commits, and no
\* result and an error for every other failure.
C20_GitFailureIsError ==
    (gcPc = "returned" /\ gcRuns = 1 /\ gcIn.run.failed) =>
        IF EmptyRepositoryFailure(gcIn.run)
            THEN gcOut = GcResult(<<>>, FALSE, "")
            ELSE gcOut.isNil /\ gcOut.err # ""

\* C24: the error of a failed turn carries the phase of that turn, and for a
\* chunk its 1-based index n and the number m of chunks of its own phase,
\* with 1 <= n <= m: m = ceil(commits / chunk_size) for a commit chunk and
\* m = ceil(issues / chunk_size) for an issue chunk.
C24_ChunkErrorIndex ==
    (pc = "done" /\ err.kind \in TurnErrorKinds) =>
        /\ turns # <<>>
        /\ err.kind = ErrorKindOf(LastTurn.msg.kind)
        /\ err.kind = "commit_chunk" =>
               /\ err.m = CeilDiv(NumCommits, cfg.ChunkSize)
               /\ err.n = Len(TurnsOfKind("commits"))
               /\ 1 <= err.n /\ err.n <= err.m
        /\ err.kind = "issue_chunk" =>
               /\ err.m = CeilDiv(NumIssues, cfg.ChunkSize)
               /\ err.n = Len(TurnsOfKind("issues"))
               /\ 1 <= err.n /\ err.n <= err.m

\* C28: authentication is selected before the commit feed is parsed: the
\* feed is only parsed once a client option has been chosen, and with no
\* credential source the invocation ends with the authentication error for
\* every feed, with the feed unparsed, no parse error and no file written.
C28_AuthBeforeParse ==
    /\ pc \in {"parse", "client", "initial", "commits", "issues", "extract"} =>
           clientOpts # NoOpt
    /\ (pc = "done" /\ err.kind \in {"parse", "write_empty"} \cup TurnErrorKinds) =>
           clientOpts # NoOpt
    /\ (logs # <<>> \/ writes # <<>>) => clientOpts # NoOpt
    /\ (NoCredentialSource /\ pc = "done") =>
           /\ err.kind = "auth"
           /\ logs = <<>>
           /\ writes = <<>>
           /\ dest = OldContent

C28_Witness ==
    /\ NoCredentialSource
    /\ pc = "done"
    /\ err.kind = "auth"
    /\ ~FeedParses
    /\ args.outputPath # ""

\* C29: when the invocation returns a nil error after writing the
\* destination, the string returned is the content written.
C29_ReturnEqualsWritten ==
    (pc = "done" /\ err = NoErr /\ writes # <<>>) => ret = LastWrite.data

\* the instruction asks for the issue lifecycle and velocity analysis
AsksIssueAnalysis(text) ==
    Contains(text, "lifecycle") \/ Contains(text, "velocity")
    \/ Contains(text, "analyze the commits and issues")

\* C26: a session that completed has sent exactly one closing instruction,
\* as its last turn, and that instruction asks for the issue lifecycle and
\* velocity analysis exactly when at least one issue was supplied.
C26_FinalPromptIssueAnalysis ==
    /\ Len(TurnsOfKind("final")) <= 1
    /\ (pc = "extract" \/ (pc = "done" /\ err.kind \in {"nil", "write_report"} /\ turns # <<>>)) =>
           /\ Len(TurnsOfKind("final")) = 1
           /\ LastTurn.msg.kind = "final"
    /\ \A k \in 1..Len(turns) :
           turns[k].msg.kind = "final" =>
               (AsksIssueAnalysis(turns[k].msg.text) <=> NumIssues > 0)

RECURSIVE MsgsOf(_)
MsgsOf(ts) == IF ts = <<>> THEN <<>> ELSE <<Head(ts).msg>> \o MsgsOf(Tail(ts))

\* C25: at most one cs.SendMessage call is in flight: a message goes out
\* only when every earlier message has its response or failure, the messages
\* go out in the order of the turns, and nothing is in flight once the
\* invocation has returned.
C25_OneCallInFlight ==
    /\ inflight \in {0, 1}
    /\ inflight = 1 <=> call = "pending"
    /\ Len(issued) = Len(turns) + inflight
    /\ SubSeq(issued, 1, Len(turns)) = MsgsOf(turns)
    /\ \A k \in 1..Len(turns) : k < Len(turns) => turns[k].ok
    /\ pc \notin {"initial", "commits", "issues"} => inflight = 0

C25_Witness ==
    /\ inflight = 1
    /\ Len(turns) = 3
    /\ issued[4].kind = "issues"
    /\ issued[2].kind = "commits"

TurnBound ==
    IF LoadConfig(args.config).isNil THEN 0
    ELSE 3 + CeilDiv(NumCommits, args.config.ChunkSize)
           + CeilDiv(NumIssues, args.config.ChunkSize)

\* C30: when every call returns, the invocation ends (completed or
\* aborted); each answered chunk turn moves the loop index strictly forward,
\* and the number of turns sent never exceeds
\* 3 + ceil(N / chunk_size) + ceil(M / chunk_size).
C30_Terminates ==
    /\ <>(pc = "done")
    /\ [](Len(issued) <= TurnBound)
    /\ [][(pc \in {"commits", "issues"} /\ pc' = pc /\ turns' # turns) => i' > i]_vars

C30_Witness ==
    /\ pc = "done"
    /\ err = NoErr
    /\ NumCommits = MaxCommits
    /\ NumIssues = MaxIssues
    /\ cfg.ChunkSize = 1
    /\ Len(turns) = TurnBound

\* the path names a directory that holds a .git entry
ValidRepo(p) == p.text # "" /\ p.absOK /\ p.stat = "dir" /\ p.gitStat = "ok"

\* C21: GetContributors and GetLogsJSON reject an invalid repository path
\* (empty, missing, a file, a directory without .git, or one that cannot be
\* examined) with an error and no result, and run no git command for it.
C21_InvalidPathRejected ==
    /\ (gcPc \notin {"off", "call"} /\ ~ValidRepo(gcIn.repoPath)) =>
           /\ gcPc = "returned"
           /\ gcRuns = 0
           /\ gcOut.isNil
           /\ gcOut.contributors = <<>>
           /\ gcOut.err # ""
    /\ (glPc \notin {"off", "call"} /\ ~ValidRepo(glIn.repoPath)) =>
           /\ glPc = "returned"
           /\ glRuns = 0
           /\ glOut.text = ""
           /\ glOut.entries = <<>>
           /\ glOut.err # ""
    /\ gcRuns > 0 => ValidRepo(gcIn.repoPath)
    /\ glRuns > 0 => ValidRepo(glIn.repoPath)

C21_Witness ==
    /\ glPc = "returned"
    /\ glIn.repoPath.stat = "dir"
    /\ glIn.repoPath.gitStat = "notexist"
    /\ glRuns = 0
    /\ glOut.err = "path is not a git repository (missing .git directory)"

\* a line GetContributors counts: three fields, a name or an email, a date
\* that parses
Accepted(line) ==
    /\ line.kind = "entry"
    /\ ~(TrimSpace(line.name) = "" /\ TrimSpace(line.email) = "")
    /\ ~ParseRFC3339(TrimSpace(line.date)).err

\* the case-insensitive (name, email) pair
PairOf(name, email) == <<ToLower(TrimSpace(name)), ToLower(TrimSpace(email))>>
LinesOfPair(out, pr) ==
    {k \in 1..Len(out) : Accepted(out[k]) /\ PairOf(out[k].name, out[k].email) = pr}
DatesOfPair(out, pr) == {ParseRFC3339(TrimSpace(out[k].date)).t : k \in LinesOfPair(out, pr)}

RECURSIVE SumCommits(_)
SumCommits(cs) == IF cs = <<>> THEN 0 ELSE Head(cs).Commits + SumCommits(Tail(cs))

\* C22: from the git log lines, GetContributors returns one contributor for
\* each case-insensitive (name, email) pair of the accepted lines and no
\* other: its Commits is the number of accepted lines of the pair, its
\* FirstCommitDate the least and its LastCommitDate the greatest of their
\* dates, and the Commits add up to the number of accepted lines.
C22_ContributorAggregation ==
    (gcPc = "returned" /\ gcRuns = 1 /\ ~gcIn.run.failed /\ ~ScannerErr(gcIn.stdout)) =>
        LET out == gcIn.stdout
            cs == gcOut.contributors
        IN /\ ~gcOut.isNil
           /\ gcOut.err = ""
           /\ \A k \in 1..Len(out) :
                  Accepted(out[k]) =>
                      \E j \in 1..Len(cs) :
                          PairOf(cs[j].Name, cs[j].Email) = PairOf(out[k].name, out[k].email)
           /\ \A j1, j2 \in 1..Len(cs) :
                  j1 # j2 =>
                      PairOf(cs[j1].Name, cs[j1].Email) # PairOf(cs[j2].Name, cs[j2].Email)
           /\ \A j \in 1..Len(cs) :
                  LET pr == PairOf(cs[j].Name, cs[j].Email) IN
                      /\ cs[j].Commits = Cardinality(LinesOfPair(out, pr))
                      /\ cs[j].Commits >= 1
                      /\ cs[j].FirstCommitDate \in DatesOfPair(out, pr)
                      /\ cs[j].LastCommitDate \in DatesOfPair(out, pr)
                      /\ \A d \in DatesOfPair(out, pr) :
                             cs[j].FirstCommitDate <= d /\ d <= cs[j].LastCommitDate
           /\ SumCommits(cs) = Cardinality({k \in 1..Len(out) : Accepted(out[k])})

C22_Witness ==
    /\ gcPc = "returned"
    /\ Len(gcIn.stdout) = 2
    /\ gcIn.stdout[1].name = "Ann" /\ gcIn.stdout[2].name = "ANN"
    /\ gcIn.stdout[1].date = "2024-01-02T00:00:00Z"
    /\ Len(gcOut.contributors) = 1
    /\ gcOut.contributors[1].Commits = 2
    /\ gcOut.contributors[1].FirstCommitDate < gcOut.contributors[1].LastCommitDate

NonPullRequests(items) == SelectSeq(items, LAMBDA it : ~it.isPR)

\* C23: GetIssues returns the items of the listing that are no pull
\* requests, in listing order, each with the comments fetched for it; when
\* the listing fails, or the comment fetch of one of those issues fails, it
\* returns nil and an error.
C23_IssuesAllOrNothing ==
    ghPc = "returned" =>
        LET nonPR == NonPullRequests(ghIn.items) IN
        IF ghIn.failed \/ \E k \in 1..Len(nonPR) : nonPR[k].answer.failed
            THEN /\ ghOut.isNil
                 /\ ghOut.issues = <<>>
                 /\ ghOut.err # ""
            ELSE /\ ghOut.err = ""
                 /\ Len(ghOut.issues) = Len(nonPR)
                 /\ \A k \in 1..Len(nonPR) :
                        /\ ghOut.issues[k].ID = nonPR[k].number
                        /\ ghOut.issues[k].Comments = nonPR[k].answer.comments

C23_Witness ==
    /\ ghPc = "returned"
    /\ Len(ghIn.items) = 2
    /\ ghIn.items[1].isPR
    /\ ghOut.err = ""
    /\ Len(ghOut.issues) = 1
    /\ ghOut.issues[1].ID = 2
    /\ Len(ghOut.issues[1].Comments) = 2

\* a commit GetLogsJSON emits: its record parsed, git show succeeded and
\* listed at least one file
Emitted(b) ==
    /\ b.kind = "entry"
    /\ ~ParseRFC3339(b.date).err
    /\ ~b.show.failed
    /\ \E k \in 1..Len(b.show.lines) : TrimSpace(b.show.lines[k]) # ""

\* C27: the entries GetLogsJSON returns are, in the order of the first
\* pass, exactly the commits whose record parsed, whose git show succeeded
\* and that list at least one file; each entry's modified_files is
\* non-empty, sorted ascending and holds the file names listed for it.
C27_LogEntriesSubsequence ==
    (glPc = "returned" /\ glRuns >= 1) =>
        LET expected == SelectSeq(glIn.blocks, Emitted)
            es == glOut.entries
        IN IF glIn.run.failed
               THEN es = <<>>
               ELSE /\ glOut.err = ""
                    /\ Len(es) = Len(expected)
                    /\ \A k \in 1..Len(es) :
                           LET files == es[k].ModifiedFiles
                               listed == {TrimSpace(expected[k].show.lines[n]) :
                                             n \in 1..Len(expected[k].show.lines)} \ {""}
                           IN /\ es[k].hash = expected[k].hash
                              /\ es[k].Message = "fix bug"
                              /\ Len(files) >= 1
                              /\ {files[n] : n \in 1..Len(files)} = listed
                              /\ \A a, b \in 1..Len(files) :
                                     a < b => ~StrLess(files[b], files[a])

C27_Witness ==
    /\ glPc = "returned"
    /\ Len(glIn.blocks) = 2
    /\ glIn.blocks[1].kind = "entry"
    /\ glIn.blocks[1].date = "2024-01-01T00:00:00Z"
    /\ ~glIn.blocks[1].show.failed
    /\ glIn.blocks[1].show.lines = <<>>
    /\ Len(glOut.entries) = 1
    /\ glOut.entries[1].hash = 2
    /\ glOut.entries[1].ModifiedFiles = <<"a.go", "b.go">>

====
